---------------------------- MODULE Spec2Model ----------------------------
(***************************************************************************)
(* A model of pylutron_caseta/smartbridge.py: the Smartbridge session      *)
(* object, its login/reconnect coroutine, the event monitoring loop that   *)
(* runs on the object's private asyncio loop, and the public facade that   *)
(* other threads call.                                                     *)
(*                                                                         *)
(* The asyncio loop runs one coroutine step at a time.  The monitor (or,   *)
(* during construction, the constructor's login) is at position pc; it     *)
(* is suspended only at the awaits of open_connection, readline and drain. *)
(* A command coroutine scheduled by run_coroutine_threadsafe runs only     *)
(* while the loop is running and the monitor is suspended.  Facade calls   *)
(* run on the caller's thread and are atomic with respect to the loop.     *)
(*                                                                         *)
(* A device record keeps the fields device_id, zone and current_state; the *)
(* fields name and type are copied from the hub's answer and read by no    *)
(* operation modelled here.  A subscriber callback is the caller's code:   *)
(* the model records which callbacks were invoked.                         *)
(***************************************************************************)
EXTENDS Integers, Sequences, FiniteSets, TLC

\* Python's None, as a device's zone and in requests.
None == "None"

\* self._reader / self._writer hold no stream (None); a stream is the number
\* of its connection.
NoStream == 0

\* Connections the model lets the client open (initial login included).
MaxConnects == 2

\* smartbridge.py:14
LEAP_PORT == 8081

\* The hub's identifiers, as the last path segment of its hrefs.
DeviceIds == {"5", "6"}
ZoneIds == {"3", "4"}
SceneIds == {"23"}
Levels == {0, 100}

\* The order in which a dict of the cache is iterated.
DeviceOrder == <<"5", "6">>

\* The ports a client is constructed with: the default and another one.
Ports == {LEAP_PORT, LEAP_PORT + 1}

VARIABLES
    devices,      \* self.devices: device_id -> [device_id, zone, current_state]
    scenes,       \* self.scenes: the scene ids cached (scene_id -> {scene_id, name})
    logged_in,    \* self.logged_in
    subscribers,  \* self._subscribers: the device ids with a callback
    reader,       \* self._reader: NoStream or the connection's number
    writer,       \* self._writer: NoStream or the connection's number
    login_lock,   \* self._login_lock is held
    at_eof,       \* self._reader.at_eof() of the current connection
    exception,    \* self._reader.exception() is not None
    nconn,        \* connections opened so far
    loop,         \* what self._loop runs: "construct", "monitor", "stopped", "failed"
    pc,           \* the position of the login / monitor coroutine
    callSt,       \* the caller thread: "idle", "queued", "draining"
    callCmd,      \* the request a queued call hands to the loop, or None
    ev,           \* the step taken last: [op, arg]
    ret,          \* what the last step gave the caller: [kind, val]
    out,          \* the requests the last step wrote onto the connection
    fired,        \* the subscriber callbacks the last step invoked, in order
    port,         \* self._port
    peers,        \* the ports open_connection was called with so far
    ahead,        \* a command was written on this connection before GET /virtualbutton
    pc2           \* the position of a second coroutine that calls _login

session == <<devices, scenes, logged_in, subscribers>>
conn == <<reader, writer, login_lock, at_eof, exception, nconn>>
caller == <<callSt, callCmd>>
setup == <<port, peers>>
vars == <<devices, scenes, logged_in, subscribers, reader, writer, login_lock,
          at_eof, exception, nconn, loop, pc, callSt, callCmd, ev, ret, out, fired,
          port, peers, ahead, pc2>>

-----------------------------------------------------------------------------
(* Wire values *)

\* An href is a path; the code keeps the text after its last '/'.
LastSegment(href) == href[Len(href)]

ZoneHref(z) == <<"zone", z>>
DeviceHref(d) == <<"device", d>>
SceneHref(s) == <<"virtualbutton", s>>

\* One entry of a Devices body; LocalZones is absent for a device with no load.
DeviceEntry(d, z) ==
    IF z = None THEN [href |-> DeviceHref(d), LocalZones |-> <<>>]
    ELSE [href |-> DeviceHref(d), LocalZones |-> <<[href |-> ZoneHref(z)]>>]

SceneEntry(s, programmed) == [href |-> SceneHref(s), IsProgrammed |-> programmed]

\* The Devices bodies the hub answers with.
HubDeviceLists ==
    { {DeviceEntry("5", "3")},
      {DeviceEntry("5", "3"), DeviceEntry("6", None)},
      {DeviceEntry("5", "3"), DeviceEntry("6", "3")},
      {DeviceEntry("5", "4"), DeviceEntry("6", "3")} }

\* The VirtualButtons bodies the hub answers with.
HubSceneLists ==
    { {},
      {SceneEntry("23", TRUE)},
      {SceneEntry("23", FALSE)} }

\* A request with no "Body" key.
NoBody == [CommandType |-> None, Type |-> None, Value |-> None]

ReadRequest(url) == [CommuniqueType |-> "ReadRequest", Url |-> url, Body |-> NoBody]

CreateRequest(url, body) == [CommuniqueType |-> "CreateRequest", Url |-> url, Body |-> body]

GoToLevel(value) == [CommandType |-> "GoToLevel", Type |-> "Level", Value |-> value]

PressAndRelease == [CommandType |-> "PressAndRelease", Type |-> None, Value |-> None]

ZoneStatus(z, level) ==
    [CommuniqueType |-> "ReadResponse", Body |-> "ZoneStatus",
     Zone |-> ZoneHref(z), Level |-> level]

\* The well-formed messages the monitor reads that carry no zone status.
OtherMessages ==
    { [CommuniqueType |-> "CreateResponse", Body |-> None],
      [CommuniqueType |-> "ReadResponse", Body |-> "Devices"] }

\* What a step gives the caller's thread: a return value, an exception, or
\* nothing (the step ends no call).
Returned(v) == [kind |-> "return", val |-> <<v>>]
ReturnedNone == [kind |-> "return", val |-> <<>>]
Raised(e) == [kind |-> "raise", val |-> <<e>>]
NoResult == [kind |-> "none", val |-> <<>>]

-----------------------------------------------------------------------------
(* The cache operations, as the code computes them *)

\* _get_zone_id, for a cached device: the 'zone' key is always present.
GetZoneId(device_id) == devices[device_id].zone

\* The truth value of `if zone_id:`: not None and not the empty string.
Truthy(zone_id) == zone_id # None /\ zone_id # ""

\* The zone of one Devices entry: the last segment of LocalZones[0].href.
EntryZone(entry) ==
    IF Len(entry.LocalZones) > 0 THEN LastSegment(entry.LocalZones[1].href) ELSE None

\* _load_devices, after its read: one assignment per entry of the answer.
LoadDevices(devs, body) ==
    LET ids == {LastSegment(e.href) : e \in body}
        entryOf(d) == CHOOSE e \in body : LastSegment(e.href) = d
    IN [d \in (DOMAIN devs) \cup ids |->
            IF d \in ids
            THEN [device_id |-> d, zone |-> EntryZone(entryOf(d)), current_state |-> -1]
            ELSE devs[d]]

\* _load_scenes, after its read: one assignment per programmed entry.
LoadScenes(scns, body) ==
    scns \cup {LastSegment(e.href) : e \in {x \in body : x.IsProgrammed}}

\* ZoneMatches without the comparison of line 269.
ZoneMatchesAny(devs, d, zone) == d \in DOMAIN devs

\* The devices a zone status for `zone` is applied to.
ZoneMatches(devs, d, zone) == d \in DOMAIN devs /\ devs[d].zone = zone

\* _handle_response on a zone status: the cache afterwards.
HandleResponse(devs, msg) ==
    LET zone == LastSegment(msg.Zone)
    IN [d \in DOMAIN devs |->
            IF ZoneMatches(devs, d, zone)
            THEN [devs[d] EXCEPT !.current_state = msg.Level]
            ELSE devs[d]]

\* Notified with the callback test of line 271 outside the zone test.
NotifiedAll(devs, subs, msg) ==
    SelectSeq(DeviceOrder, LAMBDA d : d \in DOMAIN devs /\ d \in subs)

\* _handle_response on a zone status: the callbacks invoked, in iteration order.
Notified(devs, subs, msg) ==
    LET zone == LastSegment(msg.Zone)
    IN SelectSeq(DeviceOrder, LAMBDA d : ZoneMatches(devs, d, zone) /\ d \in subs)

\* ZoneRequests without the `is not None` test of line 296.
ZoneRequestsAll(devs) ==
    LET cached == SelectSeq(DeviceOrder, LAMBDA d : d \in DOMAIN devs)
    IN [i \in 1..Len(cached) |-> ReadRequest(<<"zone", devs[cached[i]].zone, "status">>)]

\* The loop at the end of _login: one status request per device with a zone.
ZoneRequests(devs) ==
    LET zoned == SelectSeq(DeviceOrder, LAMBDA d : d \in DOMAIN devs /\ devs[d].zone # None)
    IN [i \in 1..Len(zoned) |-> ReadRequest(<<"zone", devs[zoned[i]].zone, "status">>)]

\* IsAlive without the at_eof() test of line 279.
IsAliveIgnoringEof == ~exception

\* IsAlive with the test of lines 278-279 inverted.
IsAliveInverted == exception \/ at_eof

\* The check of _login: the reader saw no error and is not at end-of-file.
IsAlive == ~exception /\ ~at_eof

\* Caught without ConnectionResetError.
CaughtValueErrorOnly == {"ValueError"}

\* The exceptions _monitor catches.
Caught == {"ValueError", "ConnectionResetError"}

\* The awaits at which the login / monitor coroutine is suspended.
Suspended == {"connect", "read_devices", "read_scenes", "read"}

\* The loop is running and free to run a command coroutine's next step.
LoopFree == loop = "monitor" /\ pc \in Suspended

TypeOK ==
    /\ DOMAIN devices \subseteq DeviceIds
    /\ scenes \subseteq SceneIds
    /\ logged_in \in BOOLEAN
    /\ subscribers \subseteq DeviceIds
    /\ reader \in {NoStream} \cup (1..MaxConnects)
    /\ writer \in {NoStream} \cup (1..MaxConnects)
    /\ nconn \in 0..MaxConnects
    /\ loop \in {"construct", "monitor", "stopped", "failed"}
    /\ pc \in Suspended \cup {"login", "done"}
    /\ callSt \in {"idle", "queued", "draining"}
    /\ port \in Ports
    /\ peers \subseteq {LEAP_PORT}
    /\ ahead \in BOOLEAN
    /\ pc2 \in {"idle", "waiting", "connect", "read_devices", "read_scenes", "done"}

-----------------------------------------------------------------------------
\* __init__ with the given port argument, up to its call of _login.
Construct(p) ==
    /\ devices = <<>>
    /\ scenes = {}
    /\ logged_in = FALSE
    /\ subscribers = {}
    /\ reader = NoStream
    /\ writer = NoStream
    /\ login_lock = FALSE
    /\ at_eof = FALSE
    /\ exception = FALSE
    /\ nconn = 0
    /\ loop = "construct"
    /\ pc = "login"
    /\ callSt = "idle"
    /\ callCmd = None
    /\ ev = [op |-> "init", arg |-> None]
    /\ ret = NoResult
    /\ out = <<>>
    /\ fired = <<>>
    /\ port = p
    /\ peers = {}
    /\ ahead = FALSE
    /\ pc2 = "idle"

\* The client constructed with the default port (line 24).
Init == Construct(LEAP_PORT)

\* The client constructed with any port.
InitAnyPort == \E p \in Ports : Construct(p)

-----------------------------------------------------------------------------
(* The login / monitor coroutine *)

\* An exception leaves _login (releasing the lock) or _read_object: the
\* constructor fails with it; _monitor catches what line 246 names and goes
\* on with its next iteration, and ends with anything else, which stops the
\* loop that run_until_complete was running for it.
Throw(exc) ==
    /\ login_lock' = FALSE
    /\ loop' = IF loop = "construct" THEN "failed"
               ELSE IF exc \in Caught THEN "monitor" ELSE "stopped"
    /\ pc' = IF loop = "monitor" /\ exc \in Caught THEN "login" ELSE "done"

\* _login returns: the constructor starts the monitor thread, whose first
\* step is _login again; the monitor goes on to its read.
LoginReturns ==
    /\ login_lock' = FALSE
    /\ loop' = "monitor"
    /\ pc' = IF loop = "construct" THEN "login" ELSE "read"

\* Locked for a lock that never holds anyone back.
LockedNever == FALSE

\* self._login_lock is held: `await self._login_lock` suspends (line 276).
Locked == login_lock

\* NotReady when line 284 is left out: the flag keeps its value.
NotReadyForgotten == logged_in

\* The flag after line 284, before the connection is opened.
NotReady == FALSE

\* _login, from the lock to the await of open_connection (lines 276-286).
Login ==
    /\ loop \in {"construct", "monitor"}
    /\ pc = "login"
    /\ ~Locked
    /\ pc2 # "waiting"
    /\ IF reader # NoStream /\ IsAlive
       THEN /\ LoginReturns
            /\ UNCHANGED <<reader, writer, logged_in>>
            /\ ev' = [op |-> "login", arg |-> "alive"]
       ELSE /\ reader' = NoStream
            /\ writer' = NoStream
            /\ logged_in' = NotReady
            /\ login_lock' = TRUE
            /\ pc' = "connect"
            /\ loop' = loop
            /\ ev' = [op |-> "login", arg |-> IF reader # NoStream THEN "closed" ELSE "fresh"]
    /\ out' = <<>>
    /\ fired' = <<>>
    /\ ret' = NoResult
    /\ UNCHANGED <<devices, scenes, subscribers, at_eof, exception, nconn, caller>>
    /\ UNCHANGED <<setup, ahead, pc2>>

\* open_connection succeeds; _load_devices writes its request (lines 286-307).
ConnectOk ==
    /\ loop \in {"construct", "monitor"}
    /\ pc = "connect"
    /\ nconn < MaxConnects
    /\ nconn' = nconn + 1
    /\ reader' = nconn + 1
    /\ writer' = nconn + 1
    /\ at_eof' = FALSE
    /\ exception' = FALSE
    /\ pc' = "read_devices"
    /\ ev' = [op |-> "connect", arg |-> nconn + 1]
    /\ out' = <<ReadRequest(<<"device">>)>>
    /\ fired' = <<>>
    /\ ret' = NoResult
    /\ peers' = peers \cup {LEAP_PORT}
    /\ ahead' = FALSE
    /\ UNCHANGED <<session, login_lock, loop, caller, port, pc2>>

\* What open_connection raises: a socket or TLS error is an OSError
\* (ConnectionRefusedError, socket.gaierror, ssl.SSLError, a timeout); a peer
\* that resets the connection while it is set up gives ConnectionResetError.
ConnectErrors == {"OSError", "ConnectionResetError"}

\* open_connection raises.
ConnectFails(exc) ==
    /\ loop \in {"construct", "monitor"}
    /\ pc = "connect"
    /\ Throw(exc)
    /\ ev' = [op |-> "connect_failed", arg |-> exc]
    /\ out' = <<>>
    /\ fired' = <<>>
    /\ ret' = NoResult
    /\ UNCHANGED <<session, reader, writer, at_eof, exception, nconn, caller>>
    /\ UNCHANGED <<setup, ahead, pc2>>

\* The read of _load_devices returns the hub's device list; the entries are
\* stored and _load_scenes writes its request (lines 308-333).
LoadDevicesStep(body) ==
    /\ loop \in {"construct", "monitor"}
    /\ pc = "read_devices"
    /\ devices' = LoadDevices(devices, body)
    /\ pc' = "read_scenes"
    /\ ev' = [op |-> "load_devices", arg |-> body]
    /\ out' = <<ReadRequest(<<"virtualbutton">>)>>
    /\ fired' = <<>>
    /\ ret' = NoResult
    /\ UNCHANGED <<scenes, logged_in, subscribers, conn, loop, caller>>
    /\ UNCHANGED <<setup, ahead, pc2>>

\* The read of _load_scenes returns the hub's scene list; the programmed
\* scenes are stored, the zone status requests are written and the session
\* is marked logged in (lines 334-341, 295-301).
LoadScenesStep(body) ==
    /\ loop \in {"construct", "monitor"}
    /\ pc = "read_scenes"
    /\ scenes' = LoadScenes(scenes, body)
    /\ logged_in' = TRUE
    /\ LoginReturns
    /\ ev' = [op |-> "load_scenes", arg |-> body]
    /\ out' = ZoneRequests(devices)
    /\ fired' = <<>>
    /\ ret' = NoResult
    /\ ahead' = FALSE
    /\ UNCHANGED <<devices, subscribers, reader, writer, at_eof, exception, nconn,
                   caller>>
    /\ UNCHANGED <<setup, pc2>>

\* How a read that yields no usable answer ends, by what the stream holds:
\* end-of-stream (b'', so None), a line that is no JSON (ValueError), a reset
\* connection (ConnectionResetError), a well-formed message of another shape.
ReadOutcomes == {"eof", "malformed", "reset", "unexpected"}

\* What the read of a bulk load can yield instead of its list: the hub
\* answers in the order of the requests, so the answer to a command written
\* before GET /virtualbutton comes before the scene list (lines 253-255: a
\* command sent by us makes a message appear on the stream).
LoadOutcomes == ReadOutcomes \cup {"command_reply"}

\* The exception such a read ends with: _read_object raises the ValueError or
\* the ConnectionResetError itself; in a bulk load, subscripting None is a
\* TypeError, a missing 'Devices' / 'VirtualButtons' key a KeyError.
LoadError(outcome) ==
    CASE outcome = "eof" -> "TypeError"
      [] outcome = "malformed" -> "ValueError"
      [] outcome = "reset" -> "ConnectionResetError"
      [] outcome = "unexpected" -> "KeyError"
      [] outcome = "command_reply" -> "KeyError"

\* The read of _load_devices or _load_scenes yields no list.
LoadFails(outcome) ==
    /\ loop \in {"construct", "monitor"}
    /\ pc \in {"read_devices", "read_scenes"}
    /\ outcome = "command_reply" => pc = "read_scenes" /\ ahead
    /\ at_eof' = IF outcome = "eof" THEN TRUE ELSE at_eof
    /\ exception' = IF outcome = "reset" THEN TRUE ELSE exception
    /\ Throw(LoadError(outcome))
    /\ ev' = [op |-> "load_failed", arg |-> outcome]
    /\ out' = <<>>
    /\ fired' = <<>>
    /\ ret' = NoResult
    /\ ahead' = FALSE
    /\ UNCHANGED <<session, reader, writer, nconn, caller, setup, pc2>>

\* _monitor reads a zone status and _handle_response applies it (243-272).
MonitorZoneStatus(msg) ==
    /\ loop = "monitor"
    /\ pc = "read"
    /\ devices' = HandleResponse(devices, msg)
    /\ fired' = Notified(devices, subscribers, msg)
    /\ pc' = "login"
    /\ ev' = [op |-> "push", arg |-> msg]
    /\ out' = <<>>
    /\ ret' = NoResult
    /\ UNCHANGED <<scenes, logged_in, subscribers, conn, loop, caller>>
    /\ UNCHANGED <<setup, ahead, pc2>>

\* _monitor reads another well-formed message: one that is no ReadResponse is
\* ignored; a ReadResponse with no ZoneStatus in its body is a KeyError.
MonitorOther(msg) ==
    /\ loop = "monitor"
    /\ pc = "read"
    /\ IF msg.CommuniqueType = "ReadResponse"
       THEN Throw("KeyError")
       ELSE /\ pc' = "login"
            /\ UNCHANGED <<login_lock, loop>>
    /\ ev' = [op |-> "other", arg |-> msg]
    /\ out' = <<>>
    /\ fired' = <<>>
    /\ ret' = NoResult
    /\ UNCHANGED <<session, reader, writer, at_eof, exception, nconn, caller>>
    /\ UNCHANGED <<setup, ahead, pc2>>

\* _monitor's read yields end-of-stream (None, which is skipped), or raises
\* on an undecodable line or a reset (lines 243-247).
MonitorReadFails(outcome) ==
    /\ loop = "monitor"
    /\ pc = "read"
    /\ outcome \in {"eof", "malformed", "reset"}
    /\ at_eof' = IF outcome = "eof" THEN TRUE ELSE at_eof
    /\ exception' = IF outcome = "reset" THEN TRUE ELSE exception
    /\ IF outcome = "eof"
       THEN /\ pc' = "login"
            /\ UNCHANGED <<login_lock, loop>>
       ELSE Throw(LoadError(outcome))
    /\ ev' = [op |-> "read_failed", arg |-> outcome]
    /\ out' = <<>>
    /\ fired' = <<>>
    /\ ret' = NoResult
    /\ UNCHANGED <<session, reader, writer, nconn, caller>>
    /\ UNCHANGED <<setup, ahead, pc2>>

-----------------------------------------------------------------------------
(* The facade, on the caller's thread *)

\* The object exists and the caller is not inside a call.
CanCall == loop \in {"monitor", "stopped"} /\ callSt = "idle"

\* A call that ends on the caller's thread with `result`.
Ends(name, id, result) ==
    /\ ret' = result
    /\ ev' = [op |-> name, arg |-> id]
    /\ out' = <<>>
    /\ fired' = <<>>
    /\ UNCHANGED <<devices, scenes, logged_in, conn, loop, pc, caller>>
    /\ UNCHANGED <<setup, ahead, pc2>>

\* _send_command: the coroutine is handed to the loop and the caller waits
\* for its result (lines 210-213).
SendCommand(name, id, cmd) ==
    /\ callSt' = "queued"
    /\ callCmd' = cmd
    /\ ret' = NoResult
    /\ ev' = [op |-> name, arg |-> id]
    /\ out' = <<>>
    /\ fired' = <<>>
    /\ UNCHANGED <<session, conn, loop, pc, setup, ahead, pc2>>

\* add_subscriber (line 54).
AddSubscriber(device_id) ==
    /\ CanCall
    /\ subscribers' = subscribers \cup {device_id}
    /\ Ends("add_subscriber", device_id, ReturnedNone)

\* DeviceLookup as self.devices.get(device_id) would give it.
DeviceLookupDefault(device_id) ==
    IF device_id \in DOMAIN devices THEN Returned(devices[device_id]) ELSE ReturnedNone

\* What get_device_by_id gives its caller (line 109).
DeviceLookup(device_id) ==
    IF device_id \in DOMAIN devices THEN Returned(devices[device_id]) ELSE Raised("KeyError")

\* What get_scene_by_id gives its caller (line 121).
SceneLookup(scene_id) ==
    IF scene_id \in scenes THEN Returned([scene_id |-> scene_id]) ELSE Raised("KeyError")

GetDeviceById(device_id) ==
    /\ CanCall
    /\ Ends("get_device_by_id", device_id, DeviceLookup(device_id))
    /\ UNCHANGED subscribers

GetSceneById(scene_id) ==
    /\ CanCall
    /\ Ends("get_scene_by_id", scene_id, SceneLookup(scene_id))
    /\ UNCHANGED subscribers

\* is_connected (line 140).
IsConnected ==
    /\ CanCall
    /\ Ends("is_connected", None, Returned(logged_in))
    /\ UNCHANGED subscribers

\* get_value (lines 131-136): a status request for the device's zone.
GetValue(device_id) ==
    /\ CanCall
    /\ IF device_id \notin DOMAIN devices
       THEN Ends("get_value", device_id, Raised("KeyError")) /\ UNCHANGED subscribers
       ELSE IF Truthy(GetZoneId(device_id))
       THEN SendCommand("get_value", device_id,
                        ReadRequest(<<"zone", GetZoneId(device_id), "status">>))
       ELSE Ends("get_value", device_id, ReturnedNone) /\ UNCHANGED subscribers

\* set_value (lines 158-167), under the name the caller used.
SetValueAs(name, device_id, value) ==
    /\ CanCall
    /\ IF device_id \notin DOMAIN devices
       THEN Ends(name, device_id, Raised("KeyError")) /\ UNCHANGED subscribers
       ELSE IF Truthy(GetZoneId(device_id))
       THEN SendCommand(name, device_id,
                        CreateRequest(<<"zone", GetZoneId(device_id), "commandprocessor">>,
                                      GoToLevel(value)))
       ELSE Ends(name, device_id, ReturnedNone) /\ UNCHANGED subscribers

SetValue(device_id, value) == SetValueAs("set_value", device_id, value)

\* turn_on (line 175).
TurnOn(device_id) == SetValueAs("turn_on", device_id, 100)

\* turn_off (line 183).
TurnOff(device_id) == SetValueAs("turn_off", device_id, 0)

\* activate_scene (lines 191-197).
ActivateScene(scene_id) ==
    /\ CanCall
    /\ IF scene_id \in scenes
       THEN SendCommand("activate_scene", scene_id,
                        CreateRequest(<<"virtualbutton", scene_id, "commandprocessor">>,
                                      PressAndRelease))
       ELSE Ends("activate_scene", scene_id, ReturnedNone) /\ UNCHANGED subscribers

-----------------------------------------------------------------------------
(* The command coroutine, on the loop *)

\* The call's coroutine ends and its result reaches the waiting caller.
Resolve(result) ==
    /\ callSt' = "idle"
    /\ callCmd' = None
    /\ ret' = result

\* _send_command_from_loop runs _write_object (lines 216, 233-236): with no
\* writer the write is an AttributeError; drain raises the error the reader
\* has seen, may raise on a connection the peer has closed, and otherwise
\* returns at once or suspends until the buffer is flushed.
WriteCommand(suspends, lost) ==
    /\ LoopFree
    /\ callSt = "queued"
    /\ IF writer = NoStream
       THEN /\ Resolve(Raised("AttributeError"))
            /\ out' = <<>>
       ELSE /\ out' = <<callCmd>>
            /\ IF exception \/ (at_eof /\ lost)
               THEN Resolve(Raised("ConnectionResetError"))
               ELSE IF suspends
               THEN /\ callSt' = "draining"
                    /\ ret' = NoResult
                    /\ UNCHANGED callCmd
               ELSE Resolve(ReturnedNone)
    /\ ahead' = (ahead \/ (writer # NoStream /\ "read_devices" \in {pc, pc2}))
    /\ ev' = [op |-> "write_command", arg |-> callCmd]
    /\ fired' = <<>>
    /\ UNCHANGED <<session, conn, loop, pc, setup, pc2>>

\* The suspended drain is woken: the buffer was flushed.
Drained ==
    /\ LoopFree
    /\ callSt = "draining"
    /\ Resolve(ReturnedNone)
    /\ ev' = [op |-> "drained", arg |-> callCmd]
    /\ out' = <<>>
    /\ fired' = <<>>
    /\ UNCHANGED <<session, conn, loop, pc, setup, ahead, pc2>>

-----------------------------------------------------------------------------
(* A second coroutine of the loop that calls _login once *)

\* The loop can run the second coroutine: the monitor is suspended at an
\* await, or in `await self._login_lock` behind the holder or an earlier
\* waiter.
SecondRuns ==
    /\ loop = "monitor"
    /\ pc \in Suspended \/ (pc = "login" /\ (login_lock \/ pc2 = "waiting"))

\* _login in the second coroutine, from the acquired lock to its return or
\* to the await of open_connection (lines 277-286).
SecondLogin(op) ==
    /\ IF reader # NoStream /\ IsAlive
       THEN /\ login_lock' = FALSE
            /\ pc2' = "done"
            /\ UNCHANGED <<reader, writer, logged_in>>
            /\ ev' = [op |-> op, arg |-> "alive"]
       ELSE /\ reader' = NoStream
            /\ writer' = NoStream
            /\ logged_in' = NotReady
            /\ login_lock' = TRUE
            /\ pc2' = "connect"
            /\ ev' = [op |-> op, arg |-> IF reader # NoStream THEN "closed" ELSE "fresh"]
    /\ out' = <<>>
    /\ fired' = <<>>
    /\ ret' = NoResult
    /\ UNCHANGED <<devices, scenes, subscribers, at_eof, exception, nconn, caller>>
    /\ UNCHANGED <<loop, pc, setup, ahead>>

\* The second coroutine calls _login: it waits at line 276 while the lock is
\* held and enters otherwise.
SecondCalls ==
    /\ SecondRuns
    /\ pc2 = "idle"
    /\ IF Locked
       THEN /\ pc2' = "waiting"
            /\ ev' = [op |-> "second_waits", arg |-> None]
            /\ out' = <<>>
            /\ fired' = <<>>
            /\ ret' = NoResult
            /\ UNCHANGED <<session, conn, loop, pc, caller, setup, ahead>>
       ELSE SecondLogin("second_login")

\* The lock was released and the waiting second coroutine acquires it.
SecondEnters ==
    /\ SecondRuns
    /\ pc2 = "waiting"
    /\ ~Locked
    /\ SecondLogin("second_enters")

\* open_connection succeeds in the second coroutine (lines 286-307).
SecondConnectOk ==
    /\ SecondRuns
    /\ pc2 = "connect"
    /\ nconn < MaxConnects
    /\ nconn' = nconn + 1
    /\ reader' = nconn + 1
    /\ writer' = nconn + 1
    /\ at_eof' = FALSE
    /\ exception' = FALSE
    /\ peers' = peers \cup {LEAP_PORT}
    /\ ahead' = FALSE
    /\ pc2' = "read_devices"
    /\ ev' = [op |-> "second_connect", arg |-> nconn + 1]
    /\ out' = <<ReadRequest(<<"device">>)>>
    /\ fired' = <<>>
    /\ ret' = NoResult
    /\ UNCHANGED <<session, login_lock, loop, pc, caller, port>>

\* An exception leaves the second coroutine's _login: the lock is released
\* and the exception ends that coroutine only.
SecondRaises ==
    /\ login_lock' = FALSE
    /\ pc2' = "done"
    /\ out' = <<>>
    /\ fired' = <<>>
    /\ ret' = NoResult

\* open_connection raises in the second coroutine.
SecondConnectFails(exc) ==
    /\ SecondRuns
    /\ pc2 = "connect"
    /\ SecondRaises
    /\ ev' = [op |-> "second_connect_failed", arg |-> exc]
    /\ UNCHANGED <<session, reader, writer, at_eof, exception, nconn, caller>>
    /\ UNCHANGED <<loop, pc, setup, ahead>>

\* The second coroutine's _load_devices reads the device list (308-333).
SecondLoadDevices(body) ==
    /\ SecondRuns
    /\ pc2 = "read_devices"
    /\ devices' = LoadDevices(devices, body)
    /\ pc2' = "read_scenes"
    /\ ev' = [op |-> "second_load_devices", arg |-> body]
    /\ out' = <<ReadRequest(<<"virtualbutton">>)>>
    /\ fired' = <<>>
    /\ ret' = NoResult
    /\ UNCHANGED <<scenes, logged_in, subscribers, conn, loop, pc, caller>>
    /\ UNCHANGED <<setup, ahead>>

\* The second coroutine's _load_scenes reads the scene list; the zone status
\* requests are written and the session is marked logged in (334-341, 295-301).
SecondLoadScenes(body) ==
    /\ SecondRuns
    /\ pc2 = "read_scenes"
    /\ scenes' = LoadScenes(scenes, body)
    /\ logged_in' = TRUE
    /\ login_lock' = FALSE
    /\ pc2' = "done"
    /\ ahead' = FALSE
    /\ ev' = [op |-> "second_load_scenes", arg |-> body]
    /\ out' = ZoneRequests(devices)
    /\ fired' = <<>>
    /\ ret' = NoResult
    /\ UNCHANGED <<devices, subscribers, reader, writer, at_eof, exception, nconn,
                   caller>>
    /\ UNCHANGED <<loop, pc, setup>>

\* A read of the second coroutine's bulk loads yields no list.
SecondLoadFails(outcome) ==
    /\ SecondRuns
    /\ pc2 \in {"read_devices", "read_scenes"}
    /\ outcome = "command_reply" => pc2 = "read_scenes" /\ ahead
    /\ at_eof' = IF outcome = "eof" THEN TRUE ELSE at_eof
    /\ exception' = IF outcome = "reset" THEN TRUE ELSE exception
    /\ SecondRaises
    /\ ahead' = FALSE
    /\ ev' = [op |-> "second_load_failed", arg |-> outcome]
    /\ UNCHANGED <<session, reader, writer, nconn, caller, loop, pc, setup>>

-----------------------------------------------------------------------------
Next ==
    \/ Login
    \/ ConnectOk
    \/ \E exc \in ConnectErrors : ConnectFails(exc)
    \/ \E body \in HubDeviceLists : LoadDevicesStep(body)
    \/ \E body \in HubSceneLists : LoadScenesStep(body)
    \/ \E outcome \in LoadOutcomes : LoadFails(outcome)
    \/ \E z \in ZoneIds, level \in Levels : MonitorZoneStatus(ZoneStatus(z, level))
    \/ \E msg \in OtherMessages : MonitorOther(msg)
    \/ \E outcome \in ReadOutcomes : MonitorReadFails(outcome)
    \/ \E d \in DeviceIds : AddSubscriber(d)
    \/ \E d \in DeviceIds : GetDeviceById(d)
    \/ \E s \in SceneIds : GetSceneById(s)
    \/ IsConnected
    \/ \E d \in DeviceIds : GetValue(d)
    \/ \E d \in DeviceIds, v \in Levels : SetValue(d, v)
    \/ \E d \in DeviceIds : TurnOn(d)
    \/ \E d \in DeviceIds : TurnOff(d)
    \/ \E s \in SceneIds : ActivateScene(s)
    \/ \E suspends \in BOOLEAN, lost \in BOOLEAN : WriteCommand(suspends, lost)
    \/ Drained

Spec == Init /\ [][Next]_vars

\* The same program, constructed with any port.
PortSpec == InitAnyPort /\ [][Next]_vars

\* The loop with the monitor and a second coroutine that calls _login.
LoginNext ==
    \/ Login
    \/ ConnectOk
    \/ \E exc \in ConnectErrors : ConnectFails(exc)
    \/ \E body \in HubDeviceLists : LoadDevicesStep(body)
    \/ \E body \in HubSceneLists : LoadScenesStep(body)
    \/ \E outcome \in LoadOutcomes : LoadFails(outcome)
    \/ \E z \in ZoneIds, level \in Levels : MonitorZoneStatus(ZoneStatus(z, level))
    \/ \E msg \in OtherMessages : MonitorOther(msg)
    \/ \E outcome \in ReadOutcomes : MonitorReadFails(outcome)
    \/ SecondCalls
    \/ SecondEnters
    \/ SecondConnectOk
    \/ \E exc \in ConnectErrors : SecondConnectFails(exc)
    \/ \E body \in HubDeviceLists : SecondLoadDevices(body)
    \/ \E body \in HubSceneLists : SecondLoadScenes(body)
    \/ \E outcome \in LoadOutcomes : SecondLoadFails(outcome)

LoginSpec == Init /\ [][LoginNext]_vars

-----------------------------------------------------------------------------
(* Claims *)

\* The ids a Devices body lists, and the ids of the programmed scenes of a
\* VirtualButtons body.
ListedDevices(body) == {LastSegment(e.href) : e \in body}
ProgrammedScenes(body) == {LastSegment(e.href) : e \in {x \in body : x.IsProgrammed}}

\* C1: after a login sequence has loaded the device list, the device cache
\* holds exactly the devices of that answer, and when the sequence completes
\* with the scene load, the scene cache holds exactly the programmed scenes of
\* that answer: nothing cached before the reconnect survives unless the hub
\* still reports it.
C1_CachesAreLatestAnswers ==
    /\ ev.op = "load_devices" => DOMAIN devices = ListedDevices(ev.arg)
    /\ ev.op = "load_scenes" => scenes = ProgrammedScenes(ev.arg)

\* C2: when the monitor's read returns end-of-stream the caches are left as
\* they were and the monitor is at its next login call with the connection
\* still held; that login call closes the connection, drops both streams,
\* marks the session not logged in and goes to open a connection; the
\* connection it opens is a new one, and on it the device list is requested
\* and loaded, then the scene list.
C2_EofThenReconnect ==
    [][ /\ (ev'.op = "read_failed" /\ ev'.arg = "eof") =>
              /\ devices' = devices
              /\ scenes' = scenes
              /\ reader' = reader /\ reader # NoStream
              /\ at_eof' /\ loop' = "monitor" /\ pc' = "login"
        /\ (loop = "monitor" /\ pc = "login" /\ reader # NoStream /\ at_eof
              /\ ev'.op = "login") =>
              /\ ev'.arg = "closed"
              /\ reader' = NoStream /\ writer' = NoStream
              /\ ~logged_in' /\ pc' = "connect" /\ out' = <<>>
        /\ (pc = "connect" /\ pc' # pc) =>
              \/ ev'.op = "connect_failed"
              \/ /\ ev'.op = "connect"
                 /\ nconn' = nconn + 1 /\ reader' = nconn' /\ writer' = nconn'
                 /\ ~at_eof' /\ ~exception'
                 /\ out' = <<ReadRequest(<<"device">>)>>
                 /\ pc' = "read_devices"
        /\ (pc = "read_devices" /\ pc' # pc) =>
              \/ ev'.op = "load_failed"
              \/ /\ ev'.op = "load_devices"
                 /\ out' = <<ReadRequest(<<"virtualbutton">>)>>
                 /\ pc' = "read_scenes"
        /\ (pc = "read_scenes" /\ pc' # pc) => ev'.op \in {"load_scenes", "load_failed"}
      ]_vars

\* C2's case: the monitor read end-of-stream and its next login call has
\* closed that connection and is opening a new one.
C2_Witness ==
    /\ loop = "monitor" /\ pc = "connect" /\ at_eof
    /\ ev.op = "login" /\ ev.arg = "closed"

\* C3: a login call made while the session is logged in and the connection
\* is alive writes nothing, opens no connection, and leaves the caches, the
\* flag, both streams and the connection's state as they were.
C3_LoginIdempotent ==
    [][ (ev'.op = "login" /\ logged_in /\ reader # NoStream /\ ~exception /\ ~at_eof) =>
              /\ ev'.arg = "alive"
              /\ out' = <<>>
              /\ UNCHANGED <<devices, scenes, logged_in, subscribers, reader, writer,
                             at_eof, exception, nconn>>
              /\ ~login_lock'
      ]_vars

\* C3's case: a login call has returned at once on a logged-in session.
C3_Witness ==
    /\ ev.op = "login" /\ ev.arg = "alive"
    /\ logged_in /\ loop = "monitor" /\ pc = "read" /\ devices # <<>>

\* C4: a zone status for zone z changes no device of another zone and adds or
\* removes none; a device with no zone has current_state -1 at all times.
C4_PushTouchesOnlyItsZone ==
    /\ \A d \in DOMAIN devices : devices[d].zone = None => devices[d].current_state = -1
    /\ [][ /\ ev'.op = "push" =>
                 /\ DOMAIN devices' = DOMAIN devices
                 /\ \A d \in DOMAIN devices :
                        devices[d].zone # LastSegment(ev'.arg.Zone) => devices'[d] = devices[d]
           /\ \A d \in DOMAIN devices' :
                  devices'[d].zone = None => devices'[d].current_state = -1
         ]_vars

\* C4's case: a zone status has been applied to a device while another cached
\* device has no zone.
C4_Witness ==
    /\ ev.op = "push"
    /\ \E d, e \in DOMAIN devices :
          /\ devices[d].zone = LastSegment(ev.arg.Zone)
          /\ devices[d].current_state = ev.arg.Level
          /\ devices[e].zone = None

\* How often device d's callback was invoked by the last step.
TimesFired(d) == Cardinality({i \in 1..Len(fired) : fired[i] = d})

C6_GetValueFromCache ==
    (ev.op = "get_value" /\ ev.arg \in DOMAIN devices) =>
        /\ callSt = "idle"
        /\ ret = Returned(devices[ev.arg].current_state)

\* The request activate_scene sends for a scene.
PressRequest(scene_id) ==
    CreateRequest(<<"virtualbutton", scene_id, "commandprocessor">>, PressAndRelease)

\* C7: activate_scene with an id that is not cached writes nothing, raises
\* nothing and leaves the caller idle; with a cached id it hands over one
\* CreateRequest for that scene's command processor, and the step that sends
\* it writes exactly that request onto the connection.
C7_ActivateScene ==
    /\ (ev.op = "activate_scene" /\ ev.arg \notin scenes) =>
           callSt = "idle" /\ ret = ReturnedNone /\ out = <<>>
    /\ (ev.op = "activate_scene" /\ ev.arg \in scenes) =>
           callSt = "queued" /\ callCmd = PressRequest(ev.arg)
    /\ (ev.op = "write_command" /\ ev.arg.Body = PressAndRelease) =>
           out = <<ev.arg>> /\ ret.kind # "raise"

\* The request set_value sends for a zone and a level.
LevelRequest(zone, value) ==
    CreateRequest(<<"zone", zone, "commandprocessor">>, GoToLevel(value))

SetValueOps == {"set_value", "turn_on", "turn_off"}

\* C8: set_value, turn_on and turn_off on a cached device with no zone write
\* nothing and return; on a device with a zone they hand over one GoToLevel
\* request for that zone (level 100 for turn_on, 0 for turn_off), and the
\* step that sends it writes exactly that request onto the connection.
C8_SetValue ==
    /\ (ev.op \in SetValueOps /\ ev.arg \in DOMAIN devices) =>
           IF devices[ev.arg].zone = None
           THEN callSt = "idle" /\ ret = ReturnedNone /\ out = <<>>
           ELSE /\ callSt = "queued"
                /\ \E v \in Levels : callCmd = LevelRequest(devices[ev.arg].zone, v)
                /\ ev.op = "turn_on" => callCmd.Body.Value = 100
                /\ ev.op = "turn_off" => callCmd.Body.Value = 0
    /\ (ev.op = "write_command" /\ ev.arg.Body.CommandType = "GoToLevel") =>
           out = <<ev.arg>> /\ ret.kind # "raise"

\* C9: get_device_by_id and get_scene_by_id with an id that is not cached
\* raise KeyError to the caller, and that call leaves the caches, the
\* subscribers and the connection as they were and writes nothing.
C9_LookupOfAbsentIdFails ==
    [][ (\/ ev'.op = "get_device_by_id" /\ ev'.arg \notin DOMAIN devices
         \/ ev'.op = "get_scene_by_id" /\ ev'.arg \notin scenes) =>
              /\ ret' = Raised("KeyError")
              /\ out' = <<>>
              /\ UNCHANGED <<devices, scenes, logged_in, subscribers, reader, writer,
                             at_eof, exception, nconn, callSt, callCmd>>
      ]_vars

\* C9's case: a lookup of a device id that is not cached, while another device
\* is cached, has raised.
C9_Witness ==
    /\ ev.op = "get_device_by_id"
    /\ ev.arg \notin DOMAIN devices /\ devices # <<>>
    /\ ret.kind = "raise"

\* The steps the loop takes: only these perform a waiting call's write and
\* hand its result to the caller.
LoopNext ==
    \/ Login
    \/ ConnectOk
    \/ \E exc \in ConnectErrors : ConnectFails(exc)
    \/ \E body \in HubDeviceLists : LoadDevicesStep(body)
    \/ \E body \in HubSceneLists : LoadScenesStep(body)
    \/ \E outcome \in LoadOutcomes : LoadFails(outcome)
    \/ \E z \in ZoneIds, level \in Levels : MonitorZoneStatus(ZoneStatus(z, level))
    \/ \E msg \in OtherMessages : MonitorOther(msg)
    \/ \E outcome \in ReadOutcomes : MonitorReadFails(outcome)
    \/ \E suspends \in BOOLEAN, lost \in BOOLEAN : WriteCommand(suspends, lost)
    \/ Drained

\* C10: a mutating command call that waits for its write is always still
\* served: whatever the state of the session and of the monitor, the loop that
\* has to perform the write and wake the caller can take a step, so the call
\* is never left waiting with nothing able to return it.
C10_WaitingCallIsServed ==
    (callSt # "idle" /\ callCmd.CommuniqueType = "CreateRequest") => ENABLED LoopNext

\* C11: a socket or TLS error raised by open_connection inside the monitor's
\* login call leaves the monitor running: it is at the login call of its next
\* iteration, which attempts the connection again.
C11_ConnectFailureAbsorbed ==
    (ev.op = "connect_failed" /\ ev.arg = "OSError" /\ loop # "failed") =>
        loop = "monitor" /\ pc = "login"

\* C12: an undecodable line or a reset connection on the monitor's read
\* leaves the monitor running at the login call of its next iteration and
\* changes no cache entry; that login call returns at once if the connection
\* is alive and otherwise closes it and goes to open a new one.
C12_BadReadAbsorbed ==
    [][ /\ (ev'.op = "read_failed" /\ ev'.arg \in {"malformed", "reset"}) =>
              /\ devices' = devices
              /\ scenes' = scenes
              /\ loop' = "monitor" /\ pc' = "login"
              /\ exception' = (ev'.arg = "reset")
        /\ (loop = "monitor" /\ pc = "login" /\ reader # NoStream /\ ev'.op = "login") =>
              IF exception \/ at_eof
              THEN ev'.arg = "closed" /\ reader' = NoStream /\ pc' = "connect"
              ELSE ev'.arg = "alive" /\ reader' = reader /\ pc' = "read"
      ]_vars

\* C12's case: the monitor's read saw a reset, and its next login call has
\* closed the connection and is opening a new one.
C12_Witness ==
    /\ loop = "monitor" /\ pc = "connect" /\ exception
    /\ ev.op = "login" /\ ev.arg = "closed"

\* C13: a well-formed message read by the monitor that is not a ReadResponse
\* with a zone status leaves the monitor running at its next iteration.
C13_OtherMessageIgnored ==
    ev.op = "other" => loop = "monitor" /\ pc = "login"

\* C14: when a login sequence of the monitor fails after the connection was
\* opened, the session is not logged in and holds no connection that the next
\* login call takes for alive.
C14_FailedLoginDisconnects ==
    (ev.op = "load_failed" /\ loop = "monitor") =>
        /\ ~logged_in
        /\ reader = NoStream \/ exception \/ at_eof

\* The positions inside a login sequence, after the connection was dropped.
InLogin == {"connect", "read_devices", "read_scenes"}

\* The status requests among `reqs` for zone z.
RequestsFor(reqs, z) ==
    Cardinality({i \in 1..Len(reqs) : reqs[i] = ReadRequest(<<"zone", z, "status">>)})

\* C16: logged_in is false while a login sequence is between dropping the
\* old connection and its end; the sequence goes from the connect to the
\* device load to the scene load on one connection; the flag becomes true only
\* in the step that ends the scene load, and that step has written, on the
\* current connection, one zone status request for each cached device with a
\* zone and nothing else.
C16_ReadyOnlyAfterLoads ==
    /\ ~logged_in
    /\ [][ /\ (pc' \in InLogin /\ loop' \in {"construct", "monitor"}) => ~logged_in'
           /\ (pc' = "read_devices" /\ pc # pc') => pc = "connect" /\ ev'.op = "connect"
           /\ (pc' = "read_scenes" /\ pc # pc') =>
                 pc = "read_devices" /\ ev'.op = "load_devices" /\ reader' = reader
           /\ (logged_in' /\ ~logged_in) =>
                 /\ pc = "read_scenes" /\ ev'.op = "load_scenes"
                 /\ reader' = reader /\ writer' = nconn /\ writer' # NoStream
                 /\ Len(out') = Cardinality({d \in DOMAIN devices' : devices'[d].zone # None})
                 /\ \A z \in ZoneIds :
                       RequestsFor(out', z) =
                           Cardinality({d \in DOMAIN devices' : devices'[d].zone = z})
         ]_vars

\* C16's case: a reconnect has ended with the flag set, having written one
\* status request while a device with no zone is cached.
C16_Witness ==
    /\ ev.op = "load_scenes" /\ logged_in /\ nconn = 2
    /\ Len(out) = 1
    /\ \E d \in DOMAIN devices : devices[d].zone = None

\* C18: the reader and the writer are both present or both absent, and
\* logged_in is true only while both are present.
C18_StreamsPaired ==
    /\ reader = NoStream <=> writer = NoStream
    /\ logged_in => reader # NoStream /\ writer # NoStream

\* C18's case: a session that was logged in has dropped its connection and
\* is suspended in open_connection.
C18_Witness ==
    /\ loop = "monitor" /\ pc = "connect" /\ nconn = 1
    /\ reader = NoStream /\ writer = NoStream /\ ~logged_in

\* C19: the write step of a command runs only while the session holds a
\* writer.
C19_WriteOnlyWithConnection ==
    ev.op = "write_command" => writer # NoStream

\* C15: the monitor and a second caller are never both inside a login
\* sequence; a call that arrives while a login is in progress waits without
\* touching the connection; while it waits, connections are opened by the
\* login in progress only; and when it enters, the other login has ended and
\* a live connection is kept as it is, without opening another.
C15_OneLoginAtATime ==
    [][ /\ ~(pc' \in InLogin /\ pc2' \in InLogin)
        /\ (pc2 = "idle" /\ pc2' # "idle" /\ pc \in InLogin) =>
              pc2' = "waiting" /\ reader' = reader /\ writer' = writer /\ nconn' = nconn
        /\ (pc2 = "waiting" /\ nconn' # nconn) => ev'.op = "connect" /\ pc2' = "waiting"
        /\ (pc2 = "waiting" /\ pc2' # "waiting") =>
              /\ pc \notin InLogin
              /\ nconn' = nconn
              /\ IF reader # NoStream /\ ~exception /\ ~at_eof
                 THEN pc2' = "done" /\ reader' = reader /\ writer' = writer
                 ELSE pc2' = "connect"
      ]_vars

\* C15's case: the second caller has waited for the monitor's login and, on
\* entering, has returned with the connection that login opened.
C15_Witness ==
    /\ ev.op = "second_enters" /\ ev.arg = "alive"
    /\ pc2 = "done" /\ nconn > 1 /\ reader = nconn /\ logged_in

\* C17: every connection is opened to the port the client was constructed
\* with.
C17_ConnectsToConfiguredPort ==
    peers \subseteq {port}

\* C20: a bulk load never takes the answer to a command for its list.
C20_LoadsReadTheirOwnAnswers ==
    ev.op = "load_failed" => ev.arg # "command_reply"

=============================================================================
